---- MODULE Spec2Model ----
(***************************************************************************)
(* ERC-7579 execution codec, call dispatcher and signer providers of       *)
(* @openzeppelin/accounts.                                                 *)
(*                                                                         *)
(* A Hex byte string is a sequence of bytes (naturals 0..255).  A bigint   *)
(* is its canonical big-endian base-256 digit sequence (no leading zero    *)
(* digit, 0n is the empty sequence), so that the whole uint256 range is    *)
(* representable.  An optional argument is a sequence of length 0          *)
(* (undefined) or 1.  A function that can throw returns a record with the  *)
(* field ok.                                                               *)
(***************************************************************************)
EXTENDS Integers, Sequences, FiniteSets, TLC

\* ------------------------------------------------------------------ bounds
MaxCalls == 3

\* the number of method invocations on one composed account
MaxInvocations == 2

\* the number of invocations that can be in progress at the same time
MaxConcurrent == 2

\* --------------------------------------------------------------- constants
MODULE_TYPE_VALIDATOR == 1
MODULE_TYPE_EXECUTOR == 2
MODULE_TYPE_FALLBACK == 3
MODULE_TYPE_HOOK == 4

EXEC_TYPE_DEFAULT == <<0>>
EXEC_TYPE_TRY == <<1>>

CALL_TYPE_CALL == <<0>>
CALL_TYPE_BATCH == <<1>>
CALL_TYPE_DELEGATE == <<255>>

\* 4-byte selectors of the two functions of IERC7579ExecutionABI
SEL_execute == <<233, 174, 92, 83>>
SEL_executeFromExecutor == <<214, 145, 201, 100>>

IERC7579ExecutionABI == { [name |-> "execute", selector |-> SEL_execute],
                          [name |-> "executeFromExecutor", selector |-> SEL_executeFromExecutor] }

\* ----------------------------------------------------------- byte helpers
Zeros(n) == [i \in 1..n |-> 0]

Fill(n, b) == [i \in 1..n |-> b]

None == <<>>

Some(x) == <<x>>

\* a parameter default: `x = d` in a signature, `x ?? d` in an expression
OrDefault(opt, d) == IF opt = None THEN d ELSE opt[1]

Ok(v) == [ok |-> TRUE, err |-> "", val |-> v]

Err(kind) == [ok |-> FALSE, err |-> kind, val |-> <<>>]

\* viem size(hex)
size(data) == Len(data)

\* viem slice(hex, start, end): bytes start..end-1, truncated at the end of
\* the data (non-strict mode)
slice(data, start, end) ==
  SubSeq(data, start + 1, IF end < Len(data) THEN end ELSE Len(data))

\* viem slice(hex, start): bytes from start to the end
sliceFrom(data, start) == SubSeq(data, start + 1, Len(data))

\* viem assertStartOffset: a positive start beyond the last byte throws
sliceThrows(data, start) == start > 0 /\ start > size(data) - 1

RECURSIVE StripZeros(_)
StripZeros(b) ==
  IF b = <<>> THEN <<>>
  ELSE IF b[1] = 0 THEN StripZeros(Tail(b)) ELSE b

\* viem hexToBigInt: big-endian bytes to bigint
hexToBigInt(b) == StripZeros(b)

\* viem numberToHex(value, { size: 32 }): bigint to a 32-byte big-endian word
numberToHex32(v) == Zeros(32 - Len(v)) \o v

\* viem pad(hex, { size: 32 }) (left) for a value of at most 32 bytes
padLeft32(b) == Zeros(32 - Len(b)) \o b

\* viem padHex(hex, { dir: 'right' }) up to the next multiple of 32 bytes
padRight32(b) == b \o Zeros((32 - (Len(b) % 32)) % 32)

\* a small natural number as a 32-byte big-endian word (offsets and lengths)
Word(n) ==
  Zeros(29) \o << (n \div 65536) % 256, (n \div 256) % 256, n % 256 >>

\* the natural number held by the 32-byte word at byte position pos, or -1
\* when the word is out of bounds or the number exceeds any data length
RdNat(data, pos) ==
  IF pos < 0 \/ pos + 32 > Len(data) THEN -1
  ELSE LET w == SubSeq(data, pos + 1, pos + 32)
       IN IF \E i \in 1..29 : w[i] # 0 THEN -1
          ELSE (w[30] * 256 + w[31]) * 256 + w[32]

\* ------------------------------------------------------------- mode word
\* encodeMode with the reserved bytes placed after the selector
encodeMode_swapped(m) ==
  OrDefault(m.callType, CALL_TYPE_CALL)
    \o OrDefault(m.execType, EXEC_TYPE_DEFAULT)
    \o OrDefault(m.selector, <<0, 0, 0, 0>>)
    \o <<0, 0, 0, 0>>
    \o OrDefault(m.payload, Zeros(22))

encodeMode(m) ==
  OrDefault(m.callType, CALL_TYPE_CALL)
    \o OrDefault(m.execType, EXEC_TYPE_DEFAULT)
    \o <<0, 0, 0, 0>>
    \o OrDefault(m.selector, <<0, 0, 0, 0>>)
    \o OrDefault(m.payload, Zeros(22))

\* decodeMode reading the selector right after execType
decodeMode_noReserved(mode) ==
  [ callType |-> slice(mode, 0, 1),
    execType |-> slice(mode, 1, 2),
    selector |-> slice(mode, 2, 6),
    payload  |-> slice(mode, 10, 32) ]

decodeMode(mode) ==
  [ callType |-> slice(mode, 0, 1),
    execType |-> slice(mode, 1, 2),
    selector |-> slice(mode, 6, 10),
    payload  |-> slice(mode, 10, 32) ]

\* ------------------------------------------------------------ single call
encodeSingle(target, value, data) ==
  target \o numberToHex32(OrDefault(value, <<>>)) \o OrDefault(data, <<>>)

\* decodeSingle reading the value as a 31-byte field
decodeSingle_shortValue(data) ==
  IF sliceThrows(data, 20) THEN Err("SliceOffsetOutOfBounds")
  ELSE Ok([ target   |-> slice(data, 0, 20),
            value    |-> hexToBigInt(slice(data, 20, 51)),
            callData |-> IF size(data) > 52 THEN sliceFrom(data, 52) ELSE <<>> ])

decodeSingle(data) ==
  IF sliceThrows(data, 20) THEN Err("SliceOffsetOutOfBounds")
  ELSE Ok([ target   |-> slice(data, 0, 20),
            value    |-> hexToBigInt(slice(data, 20, 52)),
            callData |-> IF size(data) > 52 THEN sliceFrom(data, 52) ELSE <<>> ])

\* ---------------------------------------------------------- delegate call
encodeDelegate(target, data) == target \o OrDefault(data, <<>>)

\* decodeDelegate skipping a value field, as decodeSingle does
decodeDelegate_asSingle(data) ==
  Ok([ target   |-> slice(data, 0, 20),
       callData |-> IF size(data) > 52 THEN sliceFrom(data, 52) ELSE <<>>,
       value    |-> <<>> ])

decodeDelegate(data) ==
  Ok([ target   |-> slice(data, 0, 20),
       callData |-> IF size(data) > 20 THEN sliceFrom(data, 20) ELSE <<>>,
       value    |-> <<>> ])

\* ------------------------------------------------------------------ batch
\* ABI encoding of one (address,uint256,bytes) tuple: two static words, the
\* offset of the bytes (0x60), then length and right-padded content
encodeTuple(e) ==
  padLeft32(e.target) \o numberToHex32(e.value) \o Word(96)
    \o Word(Len(e.callData)) \o padRight32(e.callData)

RECURSIVE TupleOffsets(_, _)
\* offsets of the tuples, relative to the start of the array content
TupleOffsets(entries, from) ==
  IF entries = <<>> THEN <<>>
  ELSE Word(from) \o TupleOffsets(Tail(entries), from + Len(encodeTuple(Head(entries))))

RECURSIVE TupleBodies(_)
TupleBodies(entries) ==
  IF entries = <<>> THEN <<>>
  ELSE encodeTuple(Head(entries)) \o TupleBodies(Tail(entries))

\* encodeBatch dropping the last entry
encodeBatch_dropLast(entries) ==
  LET kept == SubSeq(entries, 1, Len(entries) - 1)
  IN Word(32) \o Word(Len(kept))
       \o TupleOffsets(kept, 32 * Len(kept)) \o TupleBodies(kept)

\* encodeAbiParameters('(address,uint256,bytes)[]', [entries])
encodeBatch(entries) ==
  Word(32) \o Word(Len(entries))
    \o TupleOffsets(entries, 32 * Len(entries)) \o TupleBodies(entries)

\* the byte position of the i-th tuple (0-based) of the array whose content
\* starts at start, or -1
TuplePos(data, start, i) ==
  LET off == RdNat(data, start + 32 * i)
  IN IF off < 0 THEN -1 ELSE start + off

\* the byte position of the length word of the bytes of the tuple at tpos
BytesPos(data, tpos) ==
  LET off == IF tpos < 0 THEN -1 ELSE RdNat(data, tpos + 64)
  IN IF off < 0 THEN -1 ELSE tpos + off

TupleOk(data, tpos) ==
  /\ tpos >= 0
  /\ tpos + 96 <= Len(data)
  /\ BytesPos(data, tpos) >= 0
  /\ RdNat(data, BytesPos(data, tpos)) >= 0
  /\ BytesPos(data, tpos) + 32 + RdNat(data, BytesPos(data, tpos)) <= Len(data)

decodeTuple(data, tpos) ==
  LET bpos == BytesPos(data, tpos)
      blen == RdNat(data, bpos)
  IN [ target   |-> SubSeq(data, tpos + 13, tpos + 32),
       value    |-> hexToBigInt(SubSeq(data, tpos + 33, tpos + 64)),
       callData |-> SubSeq(data, bpos + 33, bpos + 32 + blen) ]

\* decodeAbiParameters('(address,uint256,bytes)[]', data)[0] mapped to
\* Executions
decodeBatch(data) ==
  IF size(data) = 0 THEN Err("AbiDecodingZeroData")
  ELSE IF size(data) < 32 THEN Err("AbiDecodingDataSizeTooSmall")
  ELSE LET base  == RdNat(data, 0)
           n     == IF base < 0 THEN -1 ELSE RdNat(data, base)
           start == base + 32
       IN IF n < 0 \/ start + 32 * n > Len(data) THEN Err("PositionOutOfBounds")
          ELSE IF \E i \in 0..(n - 1) : ~TupleOk(data, TuplePos(data, start, i))
               THEN Err("PositionOutOfBounds")
          ELSE Ok([ i \in 1..n |-> decodeTuple(data, TuplePos(data, start, i - 1)) ])

\* --------------------------------------------------- function-call framing
\* encodeFunctionData({ abi, functionName, args: [mode, executionCalldata] }):
\* selector, the bytes32 mode, the offset of the bytes (0x40), its length and
\* right-padded content
\* encodeFunctionData that takes the last function of the ABI
encodeFunctionData_lastItem(functionName, mode, executionCalldata) ==
  SEL_executeFromExecutor \o mode \o Word(64)
    \o Word(Len(executionCalldata)) \o padRight32(executionCalldata)

encodeFunctionData(functionName, mode, executionCalldata) ==
  LET item == CHOOSE f \in IERC7579ExecutionABI : f.name = functionName
  IN item.selector \o mode \o Word(64)
       \o Word(Len(executionCalldata)) \o padRight32(executionCalldata)

\* decodeFunctionData that knows the execute function only
decodeFunctionData_executeOnly(data) ==
  LET selector == slice(data, 0, 4)
      body     == sliceFrom(data, 4)
      off      == RdNat(body, 32)
      len      == IF off < 0 THEN -1 ELSE RdNat(body, off)
  IN IF selector # SEL_execute THEN Err("AbiFunctionSignatureNotFound")
     ELSE IF sliceThrows(data, 4) THEN Err("SliceOffsetOutOfBounds")
     ELSE IF size(body) < 32 THEN Err("AbiDecodingDataSizeTooSmall")
     ELSE IF len < 0 \/ off + 32 + len > Len(body) THEN Err("PositionOutOfBounds")
     ELSE Ok([ functionName      |-> "execute",
               mode              |-> SubSeq(body, 1, 32),
               executionCalldata |-> SubSeq(body, off + 33, off + 32 + len) ])

\* decodeFunctionData({ abi, data }): the function is found by its selector
\* only; both functions take (bytes32, bytes)
decodeFunctionData(data) ==
  LET selector == slice(data, 0, 4)
      body     == sliceFrom(data, 4)
      off      == RdNat(body, 32)
      len      == IF off < 0 THEN -1 ELSE RdNat(body, off)
  IN IF ~\E f \in IERC7579ExecutionABI : f.selector = selector
       THEN Err("AbiFunctionSignatureNotFound")
     ELSE IF sliceThrows(data, 4) THEN Err("SliceOffsetOutOfBounds")
     ELSE IF size(body) < 32 THEN Err("AbiDecodingDataSizeTooSmall")
     ELSE IF len < 0 \/ off + 32 + len > Len(body) THEN Err("PositionOutOfBounds")
     ELSE Ok([ functionName      |-> (CHOOSE f \in IERC7579ExecutionABI : f.selector = selector).name,
               mode              |-> SubSeq(body, 1, 32),
               executionCalldata |-> SubSeq(body, off + 33, off + 32 + len) ])

\* -------------------------------------------------------- call dispatcher
NoMode == [callType |-> None, execType |-> None, selector |-> None, payload |-> None]

\* calls.map(({ to, value, data }) => ({ target: to, value: value ?? 0n,
\*                                       callData: data ?? '0x' }))
toExecutions(calls) ==
  [ i \in 1..Len(calls) |->
      [ target   |-> calls[i].to,
        value    |-> OrDefault(calls[i].value, <<>>),
        callData |-> OrDefault(calls[i].data, <<>>) ] ]

\* batch.map(({ target, value, callData }) => ({ to: target, value, data: callData }))
toCalls(batch) ==
  [ i \in 1..Len(batch) |->
      [ to |-> batch[i].target, value |-> batch[i].value, data |-> batch[i].callData ] ]

\* encodeCalls taking every length other than one for a batch
encodeCalls_emptyBatch(calls) ==
  LET isBatch == Len(calls) # 1
      mode    == encodeMode([NoMode EXCEPT !.callType =
                               Some(IF isBatch THEN CALL_TYPE_BATCH ELSE CALL_TYPE_CALL)])
  IN IF isBatch
       THEN Ok(encodeFunctionData("execute", mode, encodeBatch(toExecutions(calls))))
     ELSE Ok(encodeFunctionData("execute", mode,
                                encodeSingle(calls[1].to, calls[1].value, calls[1].data)))

\* erc7579.utils.ts, first definition
encodeCalls(calls) ==
  LET isBatch == Len(calls) > 1
      mode    == encodeMode([NoMode EXCEPT !.callType =
                               Some(IF isBatch THEN CALL_TYPE_BATCH ELSE CALL_TYPE_CALL)])
  IN IF isBatch
       THEN Ok(encodeFunctionData("execute", mode, encodeBatch(toExecutions(calls))))
     ELSE IF Len(calls) = 0
       THEN Err("TypeError")   \* calls[0] is undefined, reading .to throws
     ELSE Ok(encodeFunctionData("execute", mode,
                                encodeSingle(calls[1].to, calls[1].value, calls[1].data)))

decodeCalls(data) ==
  LET fd == decodeFunctionData(data)
      callType == decodeMode(fd.val.mode).callType
      batch == IF callType = CALL_TYPE_DELEGATE
                 THEN LET d == decodeDelegate(fd.val.executionCalldata)
                      IN IF d.ok THEN Ok(<<d.val>>) ELSE d
               ELSE IF callType = CALL_TYPE_BATCH
                 THEN decodeBatch(fd.val.executionCalldata)
               ELSE IF callType = CALL_TYPE_CALL
                 THEN LET s == decodeSingle(fd.val.executionCalldata)
                      IN IF s.ok THEN Ok(<<s.val>>) ELSE s
               ELSE Err("Unrecognized call type")
  IN IF ~fd.ok THEN fd
     ELSE IF ~batch.ok THEN batch
     ELSE Ok(toCalls(batch.val))

\* erc7579.utils.ts, second definition
encodeCalls_2(calls) ==
  IF Len(calls) > 0
    THEN Ok(encodeFunctionData("execute", encodeMode(NoMode), encodeBatch(toExecutions(calls))))
  ELSE Err("TypeError")   \* calls[0] is undefined, reading .to throws

decodeCalls_2(data) ==
  LET fd == decodeFunctionData(data)
      callType == decodeMode(fd.val.mode).callType
      batch == IF hexToBigInt(callType) = hexToBigInt(CALL_TYPE_DELEGATE)
                 THEN decodeBatch(fd.val.executionCalldata)
               ELSE LET s == decodeSingle(fd.val.executionCalldata)
                    IN IF s.ok THEN Ok(<<s.val>>) ELSE s
  IN IF ~fd.ok THEN fd
     ELSE IF ~batch.ok THEN batch
     ELSE Ok(toCalls(batch.val))

\* ----------------------------------------------------------- sample inputs
Addr1 == Zeros(19) \o <<1>>
Addr2 == Fill(20, 255)
Addr3 == [i \in 1..20 |-> i * 11]
Addresses == {Addr1, Addr2, Addr3}

V0    == <<>>                     \* 0n
V1    == <<1>>                    \* 1n
V248  == <<1>> \o Zeros(31)       \* 2^248
VMax  == Fill(32, 255)            \* 2^256 - 1
Values == {V0, V1, V248, VMax}

D0  == <<>>
D2  == <<222, 173>>
DZ  == <<7, 0>>                   \* ends with a zero byte
D32 == [i \in 1..32 |-> i]
D33 == [i \in 1..33 |-> 255 - i]
Datas == {D0, D2, DZ, D32, D33}

Opt(S) == {None} \cup {Some(x) : x \in S}

CallTypes == {CALL_TYPE_CALL, CALL_TYPE_BATCH, CALL_TYPE_DELEGATE}
ExecTypes == {EXEC_TYPE_DEFAULT, EXEC_TYPE_TRY}
Selectors == {<<0, 0, 0, 0>>, <<222, 173, 190, 239>>, SEL_execute}
Payloads  == {Zeros(22), Fill(22, 255), [i \in 1..22 |-> i]}

ModeInputs ==
  [callType : Opt(CallTypes), execType : Opt(ExecTypes),
   selector : Opt(Selectors), payload : Opt(Payloads)]

SingleInputs == [target : Addresses, value : Opt(Values), data : Opt(Datas)]

DelegateInputs == [target : Addresses, data : Opt(Datas)]

Executions ==
  { [target |-> Addr1, value |-> V0,   callData |-> D0],
    [target |-> Addr2, value |-> VMax, callData |-> D33],
    [target |-> Addr3, value |-> V1,   callData |-> DZ],
    [target |-> Addr1, value |-> V248, callData |-> D32] }

Calls ==
  { [to |-> Addr1, value |-> None,       data |-> None],
    [to |-> Addr1, value |-> Some(V0),   data |-> Some(D0)],
    [to |-> Addr2, value |-> Some(VMax), data |-> Some(D33)],
    [to |-> Addr3, value |-> Some(V1),   data |-> None],
    [to |-> Addr2, value |-> None,       data |-> Some(DZ)] }

SeqsUpTo(S, n) == UNION { [1..k -> S] : k \in 0..n }

\* mode words as they can arrive from outside: any callType byte, non-zero
\* reserved bytes
RawModes ==
  { <<ct, et>> \o rsv \o sel \o Zeros(22) :
      ct \in {0, 1, 2, 254, 255}, et \in {0, 1},
      rsv \in {<<0, 0, 0, 0>>, <<0, 0, 0, 9>>}, sel \in {<<0, 0, 0, 0>>, SEL_execute} }

RawPayloads ==
  { encodeSingle(Addr2, Some(V1), Some(D2)),
    encodeSingle(Addr1, None, None),
    encodeDelegate(Addr3, Some(D33)),
    encodeBatch(<< [target |-> Addr1, value |-> V1, callData |-> D2],
                   [target |-> Addr2, value |-> V0, callData |-> D0] >>),
    Addr1, Addr2 \o <<1, 2>>, <<1, 2, 3>>, <<>> }

\* calldata as it can arrive from outside
RawCalldata ==
  { encodeFunctionData(fn, m, p) :
      fn \in {"execute", "executeFromExecutor"}, m \in RawModes, p \in RawPayloads }
  \cup { <<>>, <<1, 2, 3, 4>>, SEL_execute }

\* ---------------------------------------------------------------- signers
\* a native transaction / an authorization request, abstractly
Requests == {<<1>>, <<2>>}

\* what the signer supplied by the caller returns: toOpenZeppelinECDSAAccount
\* passes `signer` through untouched, so the outcome is the caller's signer's
\* (viem's privateKeyToAccount returns a signature, another LocalAccount
\* may throw)
CallerSignerOutcomes(req) == { Ok(<<27>> \o req), Err("caller signer threw") }

\* a signer that signs native transactions
P256_signTransaction_signs(req) == Ok(<<27>> \o req)

P256_signTransaction(req) == Err("Native transactions unsupported in non-native accounts")

P256_signAuthorization(req) == Err("Authorizations unsupported in non-native accounts")

RSA_signTransaction(req) == Err("Native transactions unsupported in non-native accounts")

RSA_signAuthorization(req) == Err("Authorizations unsupported in non-native accounts")

Variants == {"ECDSA", "P256", "RSA"}

\* ---------------------------------------------------------------- hashing
\* keccak256 is modelled by an encoding into 32 bytes that is injective on
\* the sampled inputs: a tag byte for the hashing procedure, then either the
\* short input with its length, or, for an input that is itself a digest,
\* that digest with the chain of its tags folded into the second byte.
\* Inputs are at most 26 bytes long or digests nested at most four deep.
ModelHash(tag, x) ==
  LET TagIndex(t) == IF t = 1 THEN 1 ELSE IF t = 25 THEN 2 ELSE 3
  IN IF Len(x) = 32 THEN <<tag, (x[2] * 4 + TagIndex(x[1])) % 256>> \o SubSeq(x, 3, 32)
     ELSE <<tag, 0>> \o Zeros(29 - Len(x)) \o x \o <<Len(x)>>

\* viem hashMessage: the personal-message hash ("\x19Ethereum Signed
\* Message:\n" prefix); a string and { raw } with the same bytes hash alike
hashMessage(message) == ModelHash(25, message)

\* viem hashTypedData: the EIP-712 hash
hashTypedData(typedData) == ModelHash(1, typedData)

Messages == { <<>>, <<104, 105>> }

TypedDatas == { <<1>>, <<2>> }

Digests == { hashMessage(m) : m \in Messages } \cup { hashTypedData(t) : t \in TypedDatas }

\* --------------------------------------------------------------- hex text
\* A viem Hex value is a JavaScript string: "0x" and two lowercase
\* hexadecimal digits per byte.  The model holds Hex values as their bytes;
\* where a Hex value is handed to a library that is not viem, the library
\* receives the string, modelled as the sequence of its character codes.
HexText(bytes) ==
  LET HexDigit(n) == IF n < 10 THEN 48 + n ELSE 87 + n
  IN <<48, 120>> \o [i \in 1..(2 * Len(bytes)) |->
                      IF i % 2 = 1 THEN HexDigit(bytes[(i + 1) \div 2] \div 16)
                      ELSE HexDigit(bytes[i \div 2] % 16)]

\* @noble/curves hexToBytes: an even number of hexadecimal digits and
\* nothing else, so the "x" of a "0x" prefix is rejected
noble_hexToBytes(text) ==
  LET HexValue(c) == IF c >= 48 /\ c <= 57 THEN c - 48
                     ELSE IF c >= 97 /\ c <= 102 THEN c - 87
                     ELSE IF c >= 65 /\ c <= 70 THEN c - 55
                     ELSE -1
  IN IF Len(text) % 2 = 1 THEN Err("hex string expected, got unpadded hex")
     ELSE IF \E i \in 1..Len(text) : HexValue(text[i]) < 0
       THEN Err("hex string expected, got non-hex character")
     ELSE Ok([i \in 1..(Len(text) \div 2) |->
                16 * HexValue(text[2 * i - 1]) + HexValue(text[2 * i])])

\* Node getArrayBufferOrView for a string argument: Buffer.from(string,
\* "utf8"); the characters of a Hex string are ASCII, one byte each
Buffer_from_utf8(text) == text

\* ------------------------------------------------------------------- P256
\* stand-ins for private key scalars
P256Keys == {1, 2}

\* the order of the secp256r1 group and its half
P256_N == <<255, 255, 255, 255, 0, 0, 0, 0, 255, 255, 255, 255, 255, 255, 255, 255,
            188, 230, 250, 173, 167, 23, 158, 132, 243, 185, 202, 194, 252, 99, 37, 81>>

P256_HALF_N == <<127, 255, 255, 255, 128, 0, 0, 0, 127, 255, 255, 255, 255, 255, 255, 255,
                 222, 115, 125, 86, 211, 139, 207, 66, 121, 220, 229, 97, 126, 49, 146, 168>>

RECURSIVE BytesGt(_, _)
\* a > b for two big-endian byte strings of the same length
BytesGt(a, b) ==
  IF a = <<>> THEN FALSE
  ELSE IF a[1] # b[1] THEN a[1] > b[1]
  ELSE BytesGt(Tail(a), Tail(b))

RECURSIVE BytesSub(_, _, _)
\* a - b - borrow for two big-endian byte strings of the same length, a >= b
BytesSub(a, b, borrow) ==
  IF a = <<>> THEN <<>>
  ELSE LET n == Len(a)
           d == a[n] - b[n] - borrow
       IN BytesSub(SubSeq(a, 1, n - 1), SubSeq(b, 1, n - 1), IF d < 0 THEN 1 ELSE 0)
            \o << IF d < 0 THEN d + 256 ELSE d >>

\* secp256r1.sign before low-S normalisation: a deterministic function of
\* key and digest (RFC 6979), injective in the digest, whose s takes values
\* on both sides of n/2, with both recovery bits.  r and s are bigints.
secp256r1_rawSign(digest, privateKey) ==
  LET samples == << <<1>> , P256_HALF_N,
                    BytesSub(P256_N, P256_HALF_N, 0),      \* n/2 + 1
                    BytesSub(P256_N, padLeft32(<<1>>), 0)  \* n - 1
                 >>
  IN [ r        |-> hexToBigInt([digest EXCEPT ![3] = privateKey]),
       s        |-> hexToBigInt(samples[((digest[1] + digest[31] + privateKey) % 4) + 1]),
       recovery |-> (digest[32] + digest[31] + privateKey) % 2 ]

\* secp256r1.sign(msgHash, privateKey, { lowS }): ensureBytes parses a
\* msgHash given as a string with hexToBytes and throws when that fails
secp256r1_sign(msgHash, privateKey, lowS) ==
  LET bytes == noble_hexToBytes(msgHash)
      raw   == secp256r1_rawSign(bytes.val, privateKey)
  IN IF ~bytes.ok THEN Err("msgHash must be hex string or Uint8Array")
     ELSE IF lowS /\ BytesGt(numberToHex32(raw.s), P256_HALF_N)
       THEN Ok([ r        |-> raw.r,
                 s        |-> hexToBigInt(BytesSub(P256_N, numberToHex32(raw.s), 0)),
                 recovery |-> 1 - raw.recovery ])
     ELSE Ok(raw)

\* viem serializeSignature({ r, s, v }) for v = 27 or 28: compact r, s and
\* the byte 0x1b for an odd v (yParity 0), 0x1c for an even v
serializeSignature(r, s, v) ==
  numberToHex32(hexToBigInt(r)) \o numberToHex32(hexToBigInt(s))
    \o << IF v % 2 = 0 THEN 28 ELSE 27 >>

\* privateKeyP256ToAccount.sign: the digest, a Hex string, goes to
\* secp256r1.sign as it is
P256_sign(privateKey, digest) ==
  LET sig == secp256r1_sign(HexText(digest), privateKey, TRUE)
  IN IF ~sig.ok THEN Err(sig.err)
     ELSE Ok(serializeSignature(numberToHex32(sig.val.r), numberToHex32(sig.val.s),
                                IF sig.val.recovery # 0 THEN 28 ELSE 27))

P256_signMessage(privateKey, message) == P256_sign(privateKey, hashMessage(message))

P256_signTypedData(privateKey, typedData) == P256_sign(privateKey, hashTypedData(typedData))

\* a stub one byte short
P256_STUB_SIGNATURE_short ==
  Fill(15, 255) \o <<240>> \o Zeros(16) \o <<122>> \o Fill(31, 170)

P256_STUB_SIGNATURE ==
  Fill(15, 255) \o <<240>> \o Zeros(16) \o <<122>> \o Fill(31, 170) \o <<28>>

ECDSA_STUB_SIGNATURE ==
  Fill(15, 255) \o <<240>> \o Zeros(16) \o <<122>> \o Fill(31, 170) \o <<28>>

\* -------------------------------------------------------------------- RSA
\* stand-ins for RSA private keys: the modulus size and a key number
RSAKeys == [bits : {2048, 4096}, k : {3, 77}]

ModulusBytes(key) == key.bits \div 8

\* DER prefix of the SHA-256 DigestInfo
SHA256_DIGEST_INFO == <<48, 49, 48, 13, 6, 9, 96, 134, 72, 1, 101, 3, 4, 2, 1, 5, 0, 4, 32>>

\* PKCS#1 v1.5 block type 1 padding up to the modulus length
pkcs1Pad(key, data) ==
  <<0, 1>> \o Fill(ModulusBytes(key) - 3 - Len(data), 255) \o <<0>> \o data

\* the RSA private-key operation on a block of the modulus length: a keyed,
\* length-preserving permutation of the blocks
rsaPrivate(key, block) == [i \in 1..Len(block) |-> (block[i] + key.k) % 256]

\* the matching public-key operation
rsaPublic(key, block) == [i \in 1..Len(block) |-> (block[i] + 256 - key.k) % 256]

\* crypto.privateEncrypt(privateKey, buffer) with the default PKCS#1
\* padding; a buffer given as a string is converted with Buffer.from
privateEncrypt(key, buffer) == rsaPrivate(key, pkcs1Pad(key, buffer))

\* crypto.publicDecrypt(publicKey, signature)
publicDecrypt(key, signature) ==
  LET block == rsaPublic(key, signature)
      zs    == {i \in 3..Len(block) : block[i] = 0}
      z     == IF zs = {} THEN 0 ELSE CHOOSE i \in zs : \A j \in zs : i <= j
  IN IF /\ Len(block) = ModulusBytes(key) /\ block[1] = 0 /\ block[2] = 1
        /\ z >= 11 /\ \A i \in 3..(z - 1) : block[i] = 255
       THEN Ok(SubSeq(block, z + 1, Len(block)))
     ELSE Err("padding check failed")

\* privateKeyRSAToAccount.sign: concat gives a Hex string, which goes to
\* privateEncrypt as it is
RSA_sign(privateKey, digest) ==
  Ok(privateEncrypt(privateKey, Buffer_from_utf8(HexText(SHA256_DIGEST_INFO \o digest))))

\* signMessage that hashes the message a second time
RSA_signMessage_twice(privateKey, message) ==
  RSA_sign(privateKey, hashMessage(hashMessage(message)))

RSA_signMessage(privateKey, message) == RSA_sign(privateKey, hashMessage(message))

RSA_signTypedData(privateKey, typedData) == RSA_sign(privateKey, hashTypedData(typedData))

RSA_2048_BITS_STUB_SIGNATURE == Fill(1640, 255)

\* getStubSignature of the three variants; the user operation is ignored
getStubSignature(variant, userOperation) ==
  IF variant = "ECDSA" THEN ECDSA_STUB_SIGNATURE
  ELSE IF variant = "P256" THEN P256_STUB_SIGNATURE
  ELSE RSA_2048_BITS_STUB_SIGNATURE

SignerKeys(variant) == IF variant = "RSA" THEN RSAKeys ELSE P256Keys

\* user operations: the fields the account reads (sender and chainId may be
\* absent) and the call data standing for the rest
UserOperations == [sender : Opt({Addr1, Addr2}), callData : {D0, D2}, chainId : Opt({1, 10})]

StubInputs ==
  UNION { [variant : {v}, key : SignerKeys(v), userOperation : UserOperations] : v \in Variants }

OwnSignerInputs(S) ==
  UNION { [variant : {v}, key : SignerKeys(v), input : S] : v \in {"P256", "RSA"} }

\* ---------------------------------------------------------------- account
\* the type with the signature field of the on-chain struct added
PackedUserOperation_withSignature ==
  << [name |-> "sender", type |-> "address"],
     [name |-> "nonce", type |-> "uint256"],
     [name |-> "initCode", type |-> "bytes"],
     [name |-> "callData", type |-> "bytes"],
     [name |-> "accountGasLimits", type |-> "bytes32"],
     [name |-> "preVerificationGas", type |-> "uint256"],
     [name |-> "gasFees", type |-> "bytes32"],
     [name |-> "paymasterAndData", type |-> "bytes"],
     [name |-> "signature", type |-> "bytes"] >>

\* entryPointV08.types.PackedUserOperation
PackedUserOperation ==
  << [name |-> "sender", type |-> "address"],
     [name |-> "nonce", type |-> "uint256"],
     [name |-> "initCode", type |-> "bytes"],
     [name |-> "callData", type |-> "bytes"],
     [name |-> "accountGasLimits", type |-> "bytes32"],
     [name |-> "preVerificationGas", type |-> "uint256"],
     [name |-> "gasFees", type |-> "bytes32"],
     [name |-> "paymasterAndData", type |-> "bytes"] >>

entryPointV08 ==
  [ address |-> <<67, 55, 8, 77, 158, 37, 95, 240, 112, 36, 97, 207, 136, 149, 206, 158, 59, 95, 241, 8>>,
    version |-> "0.8",
    types   |-> [PackedUserOperation |-> PackedUserOperation] ]

\* the methods toOpenZeppelinAccount supplies a default for
MethodNames ==
  {"getNonce", "signMessage", "signTypedData", "signUserOperation", "encodeCalls", "decodeCalls"}

\* defaults placed after the caller's properties, so that they win
UsesOverride_defaultsLast(parameters, name) == FALSE

\* { ...defaults, ...override }: a property of the parameters other than
\* client, signer, getAddress and getFactoryArgs replaces the default
UsesOverride(parameters, name) == name \in parameters.override

\* viem getUserOperationHash: a hash of the operation, the entry point
\* address, its version and the chain id.  Without a chain id the call
\* either throws (BigInt(undefined) in the packed hashing) or, in the
\* typed-data hashing, leaves the chain id out of the EIP-712 domain and
\* returns a hash; which one depends on the hashing path of the library.
getUserOperationHash(p) ==
  LET AddrCode(a) == <<a[1], a[20]>>
      VersionCode(v) == IF v = "0.8" THEN 8 ELSE IF v = "0.7" THEN 7 ELSE 6
      content(chain) ==
        AddrCode(p.entryPointAddress) \o <<VersionCode(p.entryPointVersion)>> \o chain
          \o AddrCode(OrDefault(p.userOperation.sender, Zeros(20))) \o p.userOperation.callData
  IN IF p.chainId = None
       THEN { Ok(ModelHash(67, content(<<0, 0>>))), Err("TypeError: Cannot convert undefined to a BigInt") }
     ELSE { Ok(ModelHash(67, content(<<1, p.chainId[1]>>))) }

\* the parameters of getUserOperationHash with the sender left as given
signUserOperation_hashParameters_keepSender(userOperation, address) ==
  [ entryPointAddress |-> entryPointV08.address,
    entryPointVersion |-> entryPointV08.version,
    userOperation     |-> userOperation,
    chainId           |-> userOperation.chainId ]

\* the parameters signUserOperation gives to getUserOperationHash; address
\* is the resolved address, undefined when the operation has a sender
signUserOperation_hashParameters(userOperation, address) ==
  [ entryPointAddress |-> entryPointV08.address,
    entryPointVersion |-> entryPointV08.version,
    userOperation     |-> [userOperation EXCEPT
                             !.sender = IF userOperation.sender = None THEN address
                                        ELSE userOperation.sender],
    chainId           |-> userOperation.chainId ]

\* a signer supplied by the caller of the ECDSA variant, such as viem's
\* privateKeyToAccount: a signature is a function of key and digest
ECDSA_sign(privateKey, digest) ==
  Ok([digest EXCEPT ![3] = privateKey] \o Fill(32, privateKey) \o <<27>>)

\* what signer.sign({ hash }) can return, or throw
Signer_sign(signer, hash) ==
  IF signer.variant = "P256" THEN { P256_sign(signer.key, hash) }
  ELSE IF signer.variant = "RSA" THEN { RSA_sign(signer.key, hash) }
  ELSE { ECDSA_sign(signer.key, hash), Err("caller signer threw") }

\* what signer.signMessage({ message }) can return, or throw
Signer_signMessage(signer, message) ==
  IF signer.variant = "P256" THEN { P256_signMessage(signer.key, message) }
  ELSE IF signer.variant = "RSA" THEN { RSA_signMessage(signer.key, message) }
  ELSE { ECDSA_sign(signer.key, hashMessage(message)), Err("caller signer threw") }

\* what signer.signTypedData(typedData) can return, or throw
Signer_signTypedData(signer, typedData) ==
  IF signer.variant = "P256" THEN { P256_signTypedData(signer.key, typedData) }
  ELSE IF signer.variant = "RSA" THEN { RSA_signTypedData(signer.key, typedData) }
  ELSE { ECDSA_sign(signer.key, hashTypedData(typedData)), Err("caller signer threw") }

\* signUserOperation signing the operation hash as a digest
signUserOperation_sign_asDigest(signer, userOpHash) == Signer_sign(signer, userOpHash)

\* the last line of signUserOperation: signer.signMessage({ message: { raw } })
signUserOperation_sign(signer, userOpHash) == Signer_signMessage(signer, userOpHash)

\* signMessage and signTypedData that hash the argument before they ask
\* the signer
account_sign_prehashed(name, signer, a) ==
  IF name = "signMessage" THEN Signer_signMessage(signer, hashMessage(a))
  ELSE Signer_signTypedData(signer, hashTypedData(a))

\* signMessage: signer.signMessage, signTypedData: signer.signTypedData
account_sign(name, signer, a) ==
  IF name = "signMessage" THEN Signer_signMessage(signer, a)
  ELSE Signer_signTypedData(signer, a)

\* getNonce reading with key 1 when no key is given
getNonce_readArguments_keyOne(addr, key) == <<addr, OrDefault(key, <<1>>)>>

\* the arguments of the entry point's getNonce: [addr, key ?? 0n]
getNonce_readArguments(addr, key) == <<addr, OrDefault(key, <<>>)>>

\* the account address the resolver returns
ACCOUNT_ADDRESS == Addr3

\* the signer of a variant
AccountSigner(variant) ==
  [ variant |-> variant,
    key     |-> IF variant = "RSA" THEN [bits |-> 2048, k |-> 3] ELSE 1 ]

\* the parameters of toOpenZeppelinAccount: the variant of the signer and
\* the names of the properties the caller supplies besides client, signer,
\* getAddress and getFactoryArgs; a property is supplied with the signer
\* of the caller, no property with each variant
AccountParameters ==
  [ variant : Variants, override : {{}} ]
    \cup [ variant : {"ECDSA"}, override : {{m} : m \in MethodNames \cup {"entryPoint"}} ]

\* the entryPoint property of the account: entryPoint: entryPointV08, unless
\* the caller supplies one (here the v0.7 entry point)
account_entryPoint(params) ==
  IF "entryPoint" \in params.override
    THEN [ address |-> <<0, 0, 0, 0, 113, 114, 125, 226, 46, 94, 157, 139, 175, 14, 218, 198, 243, 125, 160, 50>>,
           version |-> "0.7" ]
  ELSE entryPointV08

AccountUserOperations == [sender : Opt({Addr1}), callData : {D2}, chainId : Opt({10})]

\* what a function supplied by the caller returns
OVERRIDE_OUTPUT == <<170>>

\* ----------------------------------------------------------- state machine
VARIABLES
  kind,   \* which operation the input is for
  arg,    \* the input
  pc,     \* "input", "encoded" / "received", "decoded", "signed"
  op,     \* the last operation applied
  wire,   \* the result of the encoding (or the bytes received)
  res,    \* the result of the decoding / signing
  parameters, \* the parameters the account was composed from
  call,   \* the method invocations in progress on the account
  done    \* the completed invocations, with what each asked of the
          \* resolver, the client and the signer

vars == <<kind, arg, pc, op, wire, res, parameters, call, done>>

Idle == [name |-> "none", arg |-> <<>>, step |-> "idle", addr |-> None, trace |-> <<>>]

NoCalls == [s \in 1..MaxConcurrent |-> Idle]

Pending == [ok |-> FALSE, err |-> "pending", val |-> <<>>]

Init ==
  /\ \/ kind = "mode" /\ arg \in ModeInputs /\ pc = "input" /\ wire = Pending
     \/ kind = "single" /\ arg \in SingleInputs /\ pc = "input" /\ wire = Pending
     \/ kind = "delegate" /\ arg \in DelegateInputs /\ pc = "input" /\ wire = Pending
     \/ kind = "batch" /\ arg \in SeqsUpTo(Executions, MaxCalls) /\ pc = "input" /\ wire = Pending
     \/ kind = "calls" /\ arg \in SeqsUpTo(Calls, MaxCalls) /\ pc = "input" /\ wire = Pending
     \/ kind = "rawMode" /\ arg \in RawModes /\ pc = "received" /\ wire = Ok(arg)
     \/ kind = "rawPayload" /\ arg \in RawPayloads /\ pc = "received" /\ wire = Ok(arg)
     \/ kind = "rawCalldata" /\ arg \in RawCalldata /\ pc = "received" /\ wire = Ok(arg)
     \/ kind = "signer" /\ arg \in [variant : Variants, req : Requests]
          /\ pc = "input" /\ wire = Pending
     \/ kind = "stub" /\ arg \in StubInputs /\ pc = "input" /\ wire = Pending
     \/ kind = "digest" /\ arg \in OwnSignerInputs(Digests) /\ pc = "input" /\ wire = Pending
     \/ kind = "message" /\ arg \in OwnSignerInputs(Messages \cup Digests)
          /\ pc = "input" /\ wire = Pending
     \/ kind = "typedData" /\ arg \in OwnSignerInputs(TypedDatas)
          /\ pc = "input" /\ wire = Pending
  /\ op = "none"
  /\ res = Pending
  /\ parameters = [variant |-> "none", override |-> {}] /\ call = NoCalls /\ done = <<>>

Encode(k, name, result) ==
  /\ pc = "input" /\ kind = k
  /\ op' = name /\ wire' = result /\ pc' = "encoded"
  /\ UNCHANGED <<kind, arg, res>>
  /\ UNCHANGED <<parameters, call, done>>

Decode(from, raw, name, result) ==
  /\ \/ pc = "encoded" /\ op = from
     \/ pc = "received" /\ kind = raw
  /\ wire.ok
  /\ op' = name /\ res' = result /\ pc' = "decoded"
  /\ UNCHANGED <<kind, arg, wire>>
  /\ UNCHANGED <<parameters, call, done>>

EncodeMode == Encode("mode", "encodeMode", Ok(encodeMode(arg)))

DecodeMode == Decode("encodeMode", "rawMode", "decodeMode", Ok(decodeMode(wire.val)))

EncodeSingle == Encode("single", "encodeSingle", Ok(encodeSingle(arg.target, arg.value, arg.data)))

DecodeSingle == Decode("encodeSingle", "rawPayload", "decodeSingle", decodeSingle(wire.val))

EncodeBatch == Encode("batch", "encodeBatch", Ok(encodeBatch(arg)))

DecodeBatch == Decode("encodeBatch", "rawPayload", "decodeBatch", decodeBatch(wire.val))

EncodeDelegate == Encode("delegate", "encodeDelegate", Ok(encodeDelegate(arg.target, arg.data)))

DecodeDelegate == Decode("encodeDelegate", "rawPayload", "decodeDelegate", decodeDelegate(wire.val))

EncodeCalls == Encode("calls", "encodeCalls", encodeCalls(arg))

DecodeCalls == Decode("encodeCalls", "rawCalldata", "decodeCalls", decodeCalls(wire.val))

EncodeCalls_2 == Encode("calls", "encodeCalls_2", encodeCalls_2(arg))

DecodeCalls_2 == Decode("encodeCalls_2", "rawCalldata", "decodeCalls_2", decodeCalls_2(wire.val))

Sign(name, result) ==
  /\ op' = name /\ res' = result /\ pc' = "signed"
  /\ UNCHANGED <<kind, arg, wire>>
  /\ UNCHANGED <<parameters, call, done>>

SignTransaction ==
  /\ pc = "input" /\ kind = "signer"
  /\ \/ arg.variant = "P256" /\ Sign("signTransaction", P256_signTransaction(arg.req))
     \/ arg.variant = "RSA" /\ Sign("signTransaction", RSA_signTransaction(arg.req))
     \/ /\ arg.variant = "ECDSA"
        /\ \E r \in CallerSignerOutcomes(arg.req) : Sign("signTransaction", r)

SignAuthorization ==
  /\ pc = "input" /\ kind = "signer"
  /\ \/ arg.variant = "P256" /\ Sign("signAuthorization", P256_signAuthorization(arg.req))
     \/ arg.variant = "RSA" /\ Sign("signAuthorization", RSA_signAuthorization(arg.req))
     \/ /\ arg.variant = "ECDSA"
        /\ \E r \in CallerSignerOutcomes(arg.req) : Sign("signAuthorization", r)

GetStubSignature ==
  /\ pc = "input" /\ kind = "stub"
  /\ Sign("getStubSignature", Ok(getStubSignature(arg.variant, arg.userOperation)))

SignDigest ==
  /\ pc = "input" /\ kind = "digest"
  /\ \/ arg.variant = "P256" /\ Sign("sign", P256_sign(arg.key, arg.input))
     \/ arg.variant = "RSA" /\ Sign("sign", RSA_sign(arg.key, arg.input))

SignMessage ==
  /\ pc = "input" /\ kind = "message"
  /\ \/ arg.variant = "P256" /\ Sign("signMessage", P256_signMessage(arg.key, arg.input))
     \/ arg.variant = "RSA" /\ Sign("signMessage", RSA_signMessage(arg.key, arg.input))

SignTypedData ==
  /\ pc = "input" /\ kind = "typedData"
  /\ \/ arg.variant = "P256" /\ Sign("signTypedData", P256_signTypedData(arg.key, arg.input))
     \/ arg.variant = "RSA" /\ Sign("signTypedData", RSA_signTypedData(arg.key, arg.input))

Next ==
  \/ EncodeMode \/ DecodeMode
  \/ EncodeSingle \/ DecodeSingle
  \/ EncodeBatch \/ DecodeBatch
  \/ EncodeDelegate \/ DecodeDelegate
  \/ EncodeCalls \/ DecodeCalls
  \/ EncodeCalls_2 \/ DecodeCalls_2
  \/ SignTransaction \/ SignAuthorization
  \/ GetStubSignature
  \/ SignDigest \/ SignMessage \/ SignTypedData

Spec == Init /\ [][Next]_vars

\* -------------------------------------------------- composed account machine
\* one account composed by toOpenZeppelinAccount, and up to MaxInvocations
\* invocations of its methods, one at a time
AccountInit ==
  /\ kind = "account" /\ arg = <<>> /\ pc = "composed" /\ op = "none"
  /\ wire = Pending /\ res = Pending
  /\ parameters \in AccountParameters
  /\ call = NoCalls
  /\ done = <<>>

\* something the account asked of its environment, and the answer
Asked(what, a, out) == [what |-> what, arg |-> a, out |-> out]

\* a method is called: the invocation takes the first free slot
Begin(name, a, step) ==
  LET free == {s \in DOMAIN call : call[s].step = "idle"}
  IN /\ free # {}
     /\ Len(done) + Cardinality(DOMAIN call \ free) < MaxInvocations
     /\ LET s == CHOOSE x \in free : \A y \in free : x <= y
        IN call' = [call EXCEPT ![s] =
                      [ name  |-> name, arg |-> a,
                        step  |-> IF UsesOverride(parameters, name) THEN "override" ELSE step,
                        addr  |-> None,
                        trace |-> <<>> ]]
     /\ UNCHANGED <<parameters, done>>
     /\ UNCHANGED <<kind, arg, pc, op, wire, res>>

\* an account that keeps the last result of each method and returns it to
\* the later invocations of the method
Finish_memoized(s, result, trace) ==
  /\ done' = Append(done, [ name   |-> call[s].name, arg |-> call[s].arg,
                            impl   |-> IF call[s].step = "override" THEN "override" ELSE "default",
                            trace  |-> trace,
                            result |-> IF \E i \in DOMAIN done : done[i].name = call[s].name
                                         THEN done[CHOOSE i \in DOMAIN done :
                                                     done[i].name = call[s].name].result
                                       ELSE result ])
  /\ call' = [call EXCEPT ![s] = Idle]
  /\ UNCHANGED parameters
  /\ UNCHANGED <<kind, arg, pc, op, wire, res>>

\* the invocation in slot s settles
Finish(s, result, trace) ==
  /\ done' = Append(done, [ name   |-> call[s].name, arg |-> call[s].arg,
                            impl   |-> IF call[s].step = "override" THEN "override" ELSE "default",
                            trace  |-> trace,
                            result |-> result ])
  /\ call' = [call EXCEPT ![s] = Idle]
  /\ UNCHANGED parameters
  /\ UNCHANGED <<kind, arg, pc, op, wire, res>>

Account_getNonce == \E key \in Opt({<<5>>}) : Begin("getNonce", key, "getAddress")

Account_signMessage == \E m \in Messages \ {<<>>} : Begin("signMessage", m, "signer")

Account_signTypedData == \E t \in TypedDatas \ {<<2>>} : Begin("signTypedData", t, "signer")

\* signUserOperation that resolves the address whatever the operation holds
Account_signUserOperation_alwaysResolves ==
  \E o \in AccountUserOperations :
     Begin("signUserOperation", o, "getAddress")

Account_signUserOperation ==
  \E o \in AccountUserOperations :
     Begin("signUserOperation", o, IF o.sender = None THEN "getAddress" ELSE "hash")

Account_encodeCalls == \E c \in SeqsUpTo({x \in Calls : x.to = Addr3}, 1) : Begin("encodeCalls", c, "codec")

Account_decodeCalls ==
  \E c \in SeqsUpTo({x \in Calls : x.to = Addr3}, 1) \ {<<>>} : Begin("decodeCalls", encodeCalls(c).val, "codec")

\* the function the caller supplied runs in place of the default
OverrideReturns ==
  \E s \in DOMAIN call :
     /\ call[s].step = "override"
     /\ \E r \in { Ok(OVERRIDE_OUTPUT), Err("supplied function threw") } :
           Finish(s, r, << Asked("override", call[s].arg, r) >>)

\* a failed this.getAddress() is awaited once more
GetAddressReturns_retries ==
  \E s \in DOMAIN call :
     /\ call[s].step = "getAddress"
     /\ \E r \in { Ok(ACCOUNT_ADDRESS), Err("getAddress threw") } :
           LET trace == Append(call[s].trace, Asked("getAddress", <<>>, r))
           IN IF r.ok \/ Len(call[s].trace) = 0
                THEN /\ call' = [call EXCEPT ![s].addr = IF r.ok THEN Some(r.val) ELSE None,
                                             ![s].trace = trace,
                                             ![s].step = IF ~r.ok THEN "getAddress"
                                                         ELSE IF call[s].name = "getNonce" THEN "read"
                                                         ELSE "hash"]
                     /\ UNCHANGED <<parameters, done>>
                     /\ UNCHANGED <<kind, arg, pc, op, wire, res>>
              ELSE Finish(s, r, trace)

\* this.getAddress() settles
GetAddressReturns ==
  \E s \in DOMAIN call :
     /\ call[s].step = "getAddress"
     /\ \E r \in { Ok(ACCOUNT_ADDRESS), Err("getAddress threw") } :
           LET trace == Append(call[s].trace, Asked("getAddress", <<>>, r))
           IN IF r.ok
                THEN /\ call' = [call EXCEPT ![s].addr = Some(r.val), ![s].trace = trace,
                                             ![s].step = IF call[s].name = "getNonce" THEN "read"
                                                         ELSE "hash"]
                     /\ UNCHANGED <<parameters, done>>
                     /\ UNCHANGED <<kind, arg, pc, op, wire, res>>
              ELSE Finish(s, r, trace)

\* getNonce reading at the entry point the account reports
ReadNonceReturns_reported ==
  \E s \in DOMAIN call :
     /\ call[s].step = "read"
     /\ \E r \in { Ok(<<>>), Ok(<<7>>), Err("read failed") } :
           Finish(s, r,
                  Append(call[s].trace,
                         Asked("read",
                               [ address      |-> account_entryPoint(parameters).address,
                                 functionName |-> "getNonce",
                                 args         |-> getNonce_readArguments(call[s].addr[1], call[s].arg) ],
                               r)))

\* getContract({ client, ...entryPointV08 }).read.getNonce([addr, key ?? 0n])
\* settles
ReadNonceReturns ==
  \E s \in DOMAIN call :
     /\ call[s].step = "read"
     /\ \E r \in { Ok(<<>>), Ok(<<7>>), Err("read failed") } :
           Finish(s, r,
                  Append(call[s].trace,
                         Asked("read",
                               [ address      |-> entryPointV08.address,
                                 functionName |-> "getNonce",
                                 args         |-> getNonce_readArguments(call[s].addr[1], call[s].arg) ],
                               r)))

\* signUserOperation from getUserOperationHash on
HashAndSign ==
  \E s \in DOMAIN call :
     /\ call[s].step = "hash"
     /\ LET p == signUserOperation_hashParameters(call[s].arg, call[s].addr)
        IN \E h \in getUserOperationHash(p) :
             LET trace == Append(call[s].trace, Asked("getUserOperationHash", p, h))
             IN IF ~h.ok THEN Finish(s, h, trace)
                ELSE \E sig \in signUserOperation_sign(AccountSigner(parameters.variant), h.val) :
                       Finish(s, sig, Append(trace, Asked("signer", h.val, sig)))

\* signMessage and signTypedData
SignerReturns ==
  \E s \in DOMAIN call :
     /\ call[s].step = "signer"
     /\ \E sig \in account_sign(call[s].name, AccountSigner(parameters.variant), call[s].arg) :
           Finish(s, sig, << Asked("signer", call[s].arg, sig) >>)

\* encodeCalls and decodeCalls
CodecReturns ==
  \E s \in DOMAIN call :
     /\ call[s].step = "codec"
     /\ Finish(s,
               IF call[s].name = "encodeCalls" THEN encodeCalls(call[s].arg)
               ELSE decodeCalls(call[s].arg),
               <<>>)

AccountNext ==
  \/ Account_getNonce \/ Account_signMessage \/ Account_signTypedData
  \/ Account_signUserOperation \/ Account_encodeCalls \/ Account_decodeCalls
  \/ OverrideReturns \/ GetAddressReturns \/ ReadNonceReturns
  \/ HashAndSign \/ SignerReturns \/ CodecReturns

AccountSpec == AccountInit /\ [][AccountNext]_vars


\* ------------------------------------------------------------------ claims
\* the calls with omitted value / data filled in with 0 / empty
Filled(calls) == toCalls(toExecutions(calls))

\* the mode and executionCalldata embedded in the calldata that was encoded
Framed == decodeFunctionData(wire.val)

EncodedCalls == pc = "encoded" /\ op \in {"encodeCalls", "encodeCalls_2"}

DecodedCalls == pc = "decoded" /\ op \in {"decodeCalls", "decodeCalls_2"}

\* C1: for every non-empty sequence of calls, decodeCalls(encodeCalls(calls))
\* has the same length and order and the same to, value (0 when omitted) and
\* data (empty when omitted), for one call and for two or more calls.
C1_CallsRoundTrip ==
  (DecodedCalls /\ kind = "calls") => (res.ok /\ res.val = Filled(arg))

\* C1 restricted to the first definition of encodeCalls / decodeCalls
C1_FirstDefinition ==
  (pc = "decoded" /\ op = "decodeCalls" /\ kind = "calls")
    => (res.ok /\ res.val = Filled(arg))

\* the second definition returns one call for a sequence of two calls
C1_SecondDefinitionCollapses ==
  /\ pc = "decoded" /\ op = "decodeCalls_2" /\ kind = "calls"
  /\ Len(arg) = 2 /\ res.ok /\ Len(res.val) = 1

\* C2: encodeCalls chooses the call type from the number of calls: one call
\* gives callType CALL and executionCalldata = encodeSingle of the call, two
\* or more give callType BATCH and executionCalldata = encodeBatch of all.
C2_CallTypeChoice ==
  (EncodedCalls /\ wire.ok) =>
     /\ Framed.ok
     /\ Framed.val.functionName = "execute"
     /\ Len(arg) = 1 =>
          /\ decodeMode(Framed.val.mode).callType = CALL_TYPE_CALL
          /\ Framed.val.executionCalldata = encodeSingle(arg[1].to, arg[1].value, arg[1].data)
     /\ Len(arg) >= 2 =>
          /\ decodeMode(Framed.val.mode).callType = CALL_TYPE_BATCH
          /\ Framed.val.executionCalldata = encodeBatch(toExecutions(arg))

\* C2 restricted to the first definition of encodeCalls
C2_FirstDefinition ==
  (pc = "encoded" /\ op = "encodeCalls_2") \/ C2_CallTypeChoice

\* C3: encodeCalls of an empty sequence fails and returns no calldata; no
\* calldata is ever produced for zero calls.
C3_EmptyCallsFail ==
  EncodedCalls =>
     /\ arg = <<>> => (~wire.ok /\ wire.val = <<>>)
     /\ wire.ok => Len(arg) >= 1

C3_Witness == pc = "encoded" /\ op = "encodeCalls" /\ arg = <<>> /\ ~wire.ok

\* the calldata received parses and its mode carries a callType byte outside
\* CALL, BATCH, DELEGATE
UnrecognizedCallType ==
  /\ kind = "rawCalldata"
  /\ decodeFunctionData(wire.val).ok
  /\ decodeMode(decodeFunctionData(wire.val).val.mode).callType \notin CallTypes

\* C4: decodeCalls on calldata whose mode carries a callType outside CALL,
\* BATCH, DELEGATE fails with the unrecognized-call-type error and never
\* decodes the payload as a single call, a batch or a delegate call.
C4_UnrecognizedCallTypeFails ==
  (DecodedCalls /\ UnrecognizedCallType)
    => (~res.ok /\ res.err = "Unrecognized call type")

\* C4 restricted to the first definition of decodeCalls
C4_FirstDefinition ==
  (pc = "decoded" /\ op = "decodeCalls" /\ UnrecognizedCallType)
    => (~res.ok /\ res.err = "Unrecognized call type")

AllGiven(m) ==
  m.callType # None /\ m.execType # None /\ m.selector # None /\ m.payload # None

\* C5: for every callType, execType, 4-byte selector and 22-byte payload,
\* decodeMode(encodeMode(...)) returns exactly the same four fields.
C5_ModeRoundTrip ==
  (pc = "decoded" /\ op = "decodeMode" /\ kind = "mode" /\ AllGiven(arg)) =>
     res.val = [ callType |-> arg.callType[1], execType |-> arg.execType[1],
                 selector |-> arg.selector[1], payload  |-> arg.payload[1] ]

C5_Witness ==
  /\ pc = "decoded" /\ op = "decodeMode" /\ kind = "mode"
  /\ arg.callType = Some(CALL_TYPE_DELEGATE) /\ arg.execType = Some(EXEC_TYPE_TRY)
  /\ arg.selector = Some(<<222, 173, 190, 239>>) /\ arg.payload = Some(Fill(22, 255))
  /\ res.val.selector = <<222, 173, 190, 239>>

\* C6: encodeMode returns exactly 32 bytes: callType at byte 0, execType at
\* byte 1, zero at bytes 2..5, selector at bytes 6..9, payload at bytes
\* 10..31; with no arguments it returns the all-zero word.
C6_ModeLayout ==
  (pc = "encoded" /\ op = "encodeMode") =>
     /\ Len(wire.val) = 32
     /\ wire.val[1] = OrDefault(arg.callType, <<0>>)[1]
     /\ wire.val[2] = OrDefault(arg.execType, <<0>>)[1]
     /\ \A i \in 3..6 : wire.val[i] = 0
     /\ \A i \in 1..4 : wire.val[6 + i] = OrDefault(arg.selector, Zeros(4))[i]
     /\ \A i \in 1..22 : wire.val[10 + i] = OrDefault(arg.payload, Zeros(22))[i]
     /\ arg = NoMode => \A i \in 1..32 : wire.val[i] = 0

C6_Witness ==
  /\ pc = "encoded" /\ op = "encodeMode"
  /\ arg.callType = Some(CALL_TYPE_DELEGATE) /\ arg.selector = Some(SEL_execute)
  /\ arg.payload = Some([i \in 1..22 |-> i])
  /\ wire.val[1] = 255 /\ wire.val[7] = 233 /\ wire.val[32] = 22

\* C7: decodeSingle(encodeSingle(target, value, data)) returns (target,
\* value, data); with value and data omitted it returns value 0 and empty
\* callData.
C7_SingleRoundTrip ==
  (pc = "decoded" /\ op = "decodeSingle" /\ kind = "single") =>
     /\ res.ok
     /\ res.val.target = arg.target
     /\ res.val.value = (IF arg.value = None THEN V0 ELSE arg.value[1])
     /\ res.val.callData = (IF arg.data = None THEN <<>> ELSE arg.data[1])

C7_Witness ==
  /\ pc = "decoded" /\ op = "decodeSingle" /\ kind = "single"
  /\ arg.value = Some(VMax) /\ arg.data = Some(D33)
  /\ res.ok /\ res.val.value = VMax /\ res.val.callData = D33

\* C8: for every non-empty sequence of executions, decodeBatch(encodeBatch(
\* ...)) has as many entries as were supplied, in the same order, each with
\* the same target, value and callData.
C8_BatchRoundTrip ==
  (pc = "decoded" /\ op = "decodeBatch" /\ kind = "batch" /\ Len(arg) >= 1) =>
     /\ res.ok
     /\ Len(res.val) = Len(arg)
     /\ \A i \in 1..Len(arg) : res.val[i] = arg[i]

C8_Witness ==
  /\ pc = "decoded" /\ op = "decodeBatch" /\ kind = "batch"
  /\ Len(arg) = MaxCalls /\ arg[1] # arg[2] /\ arg[2].callData = D33
  /\ res.ok /\ Len(res.val) = MaxCalls

\* C9: decodeDelegate(encodeDelegate(target, data)) returns the target, the
\* data (empty when omitted) and value 0; decodeDelegate reports value 0 for
\* every input.
C9_DelegateRoundTrip ==
  (pc = "decoded" /\ op = "decodeDelegate") =>
     /\ res.ok /\ res.val.value = V0
     /\ kind = "delegate" =>
          /\ res.val.target = arg.target
          /\ res.val.callData = (IF arg.data = None THEN <<>> ELSE arg.data[1])

C9_Witness ==
  /\ pc = "decoded" /\ op = "decodeDelegate" /\ kind = "delegate"
  /\ arg.data = Some(D33) /\ res.val.callData = D33 /\ res.val.target = arg.target

Refused == pc = "signed" /\ op \in {"signTransaction", "signAuthorization"}

StubReturned == pc = "signed" /\ op = "getStubSignature"

\* C13: the RSA stub signature consists only of 0xff bytes and is exactly
\* 256 bytes long, the length of a signature made with a 2048-bit key.
C13_RSAStubIs256Bytes ==
  (StubReturned /\ arg.variant = "RSA") =>
     /\ res.ok
     /\ \A i \in 1..Len(res.val) : res.val[i] = 255
     /\ Len(res.val) = 256
     /\ \A k \in RSAKeys : k.bits = 2048 => Len(res.val) = Len(RSA_sign(k, Zeros(32)).val)

\* the RSA stub is all 0xff, and 1640 bytes long
C13_RSAStubObserved ==
  (StubReturned /\ arg.variant = "RSA") =>
     /\ res.ok
     /\ \A i \in 1..Len(res.val) : res.val[i] = 255
     /\ Len(res.val) = 1640

\* C14: the stub signature of the ECDSA account and of the P256 account is
\* one constant of exactly 65 bytes, the same for both, returned whatever the
\* user operation and the signer's key are.
C14_StubIsFixed65Bytes ==
  (StubReturned /\ arg.variant \in {"ECDSA", "P256"}) =>
     /\ res.ok
     /\ Len(res.val) = 65
     /\ res.val = ECDSA_STUB_SIGNATURE
     /\ \A o \in UserOperations, v \in {"ECDSA", "P256"} :
          res.val = getStubSignature(v, o)

C14_Witness ==
  /\ StubReturned /\ arg.variant = "P256" /\ arg.key = 2
  /\ arg.userOperation.sender = None /\ arg.userOperation.chainId # None
  /\ Len(res.val) = 65

\* the r, s and v fields of a 65-byte signature
SigR == SubSeq(res.val, 1, 32)

SigS == SubSeq(res.val, 33, 64)

SigV == res.val[65]

DigestSigned == pc = "signed" /\ op = "sign"

\* C15: P256 signDigest returns 65 bytes r (32, big-endian), s (32,
\* big-endian), v, with v = 0x1b or 0x1c, and s in the lower half of the
\* group order.
C15_P256SignatureLayout ==
  (DigestSigned /\ arg.variant = "P256") =>
     /\ res.ok
     /\ Len(res.val) = 65
     /\ SigV \in {27, 28}
     /\ ~BytesGt(SigS, P256_HALF_N)

\* P256 signDigest throws for every digest
C15_P256SignThrows ==
  (DigestSigned /\ arg.variant = "P256") => ~res.ok

\* C16: RSA signDigest with a 2048-bit key returns exactly 256 bytes, made by
\* the private-key operation on the 19-byte SHA-256 DigestInfo prefix followed
\* by the 32-byte digest; the public key recovers that DigestInfo and with it
\* the digest.
C16_RSASignatureOfDigestInfo ==
  (DigestSigned /\ arg.variant = "RSA") =>
     LET opened == publicDecrypt(arg.key, res.val)
     IN /\ res.ok
        /\ arg.key.bits = 2048 => Len(res.val) = 256
        /\ Len(SHA256_DIGEST_INFO) = 19
        /\ Len(arg.input) = 32
        /\ res.val = privateEncrypt(arg.key, SHA256_DIGEST_INFO \o arg.input)
        /\ opened.ok
        /\ opened.val = SHA256_DIGEST_INFO \o arg.input
        /\ sliceFrom(opened.val, 19) = arg.input

\* the RSA signature has the length of the modulus, and the public key
\* recovers the 104 characters of the Hex string of the DigestInfo
C16_RSASignatureOfHexText ==
  (DigestSigned /\ arg.variant = "RSA") =>
     /\ res.ok
     /\ Len(res.val) = ModulusBytes(arg.key)
     /\ publicDecrypt(arg.key, res.val) = Ok(HexText(SHA256_DIGEST_INFO \o arg.input))
     /\ Len(HexText(SHA256_DIGEST_INFO \o arg.input)) = 104

\* signDigest of the own signer of a variant
OwnSign(variant, key, digest) ==
  IF variant = "P256" THEN P256_sign(key, digest) ELSE RSA_sign(key, digest)

\* C17: for the P256 and the RSA signer, signMessage(msg) is
\* signDigest(hashMessage(msg)) and signTypedData(td) is
\* signDigest(hashTypedData(td)), as a value or as a failure; a signature
\* returned is that of the input hashed exactly once, not of the input
\* unhashed or hashed twice.
C17_HashThenSign ==
  /\ (pc = "signed" /\ op = "signMessage") =>
        /\ res = OwnSign(arg.variant, arg.key, hashMessage(arg.input))
        /\ res.ok =>
             /\ res # OwnSign(arg.variant, arg.key, hashMessage(hashMessage(arg.input)))
             /\ Len(arg.input) = 32 => res # OwnSign(arg.variant, arg.key, arg.input)
  /\ (pc = "signed" /\ op = "signTypedData") =>
        /\ res = OwnSign(arg.variant, arg.key, hashTypedData(arg.input))
        /\ res.ok =>
             res # OwnSign(arg.variant, arg.key, hashTypedData(hashTypedData(arg.input)))

\* a message that is itself 32 bytes long is hashed before it is signed
C17_Witness ==
  /\ pc = "signed" /\ op = "signMessage" /\ arg.variant = "RSA"
  /\ Len(arg.input) = 32
  /\ res.ok
  /\ res = RSA_sign(arg.key, hashMessage(arg.input))

\* the completed invocations of the default of a method
Defaults(name) == { i \in DOMAIN done : done[i].name = name /\ done[i].impl = "default" }

TheSigner == AccountSigner(parameters.variant)

\* the part of the trace of a signUserOperation after the address resolution
AfterResolution(d) == IF d.arg.sender = None THEN Tail(d.trace) ELSE d.trace

\* the address resolution of a signUserOperation failed
ResolutionFailed(d) == d.arg.sender = None /\ ~d.trace[1].out.ok

\* C11: signUserOperation hashes the operation, with the resolved address as
\* sender when the operation has none, together with the fixed entry point
\* address, the entry point version and the operation's chain id, and returns
\* what the signer's signMessage returns for that hash as raw message; the
\* hash is not signed as a digest.
C11_SignsHashAsRawMessage ==
  \A i \in Defaults("signUserOperation") :
     LET d    == done[i]
         rest == AfterResolution(d)
         p    == [ entryPointAddress |-> entryPointV08.address,
                   entryPointVersion |-> "0.8",
                   userOperation     |-> [ sender   |-> IF d.arg.sender = None
                                                          THEN Some(d.trace[1].out.val)
                                                        ELSE d.arg.sender,
                                           callData |-> d.arg.callData,
                                           chainId  |-> d.arg.chainId ],
                   chainId           |-> d.arg.chainId ]
     IN /\ d.arg.sender = None => d.trace[1].what = "getAddress"
        /\ (d.arg.chainId # None /\ ~ResolutionFailed(d)) =>
             /\ Len(rest) = 2
             /\ rest[1].what = "getUserOperationHash"
             /\ rest[1].arg = p
             /\ rest[1].out \in getUserOperationHash(p)
             /\ rest[1].out.ok
             /\ rest[2].what = "signer"
             /\ rest[2].arg = rest[1].out.val
             /\ rest[2].out \in Signer_signMessage(TheSigner, rest[1].out.val)
             /\ d.result = rest[2].out
             /\ d.result.ok => d.result \notin Signer_sign(TheSigner, rest[1].out.val)

\* an operation without sender, signed after the address was resolved
C11_Witness ==
  \E i \in Defaults("signUserOperation") :
     /\ done[i].arg.sender = None /\ done[i].arg.chainId # None
     /\ Len(done[i].trace) = 3
     /\ done[i].result.ok
     /\ done[i].trace[2].arg.userOperation.sender = Some(ACCOUNT_ADDRESS)

\* C12: signUserOperation of an operation without chainId fails and returns
\* no signature, and the signer is not asked to sign.
C12_MissingChainIdFails ==
  \A i \in Defaults("signUserOperation") :
     done[i].arg.chainId = None =>
        /\ ~done[i].result.ok
        /\ \A k \in DOMAIN done[i].trace : done[i].trace[k].what # "signer"

\* signUserOperation hands the absent chainId to getUserOperationHash
\* without a check of its own
C12_NoCheckOfChainId ==
  \A i \in Defaults("signUserOperation") :
     (done[i].arg.chainId = None /\ ~ResolutionFailed(done[i])) =>
        /\ AfterResolution(done[i])[1].what = "getUserOperationHash"
        /\ AfterResolution(done[i])[1].arg.chainId = None

C20_OverridesReplaceDefaults ==
  \A i \in DOMAIN done :
     LET d == done[i]
     IN /\ d.name \in parameters.override =>
             /\ d.impl = "override"
             /\ Len(d.trace) = 1
             /\ d.trace[1].what = "override"
             /\ d.trace[1].arg = d.arg
             /\ d.result = d.trace[1].out
        /\ d.name \notin parameters.override =>
             /\ d.impl = "default"
             /\ \A k \in DOMAIN d.trace : d.trace[k].what # "override"

\* a supplied signUserOperation has run, and the default getNonce after it
C20_Witness ==
  /\ parameters.override = {"signUserOperation"}
  /\ Len(done) = 2
  /\ done[1].name = "signUserOperation" /\ done[1].impl = "override"
  /\ done[1].result = Ok(OVERRIDE_OUTPUT)
  /\ done[2].name = "getNonce" /\ done[2].impl = "default"

\* the calls a decoded execution, or a failure, maps to
AsCalls(r) == IF r.ok THEN Ok(toCalls(r.val)) ELSE r

\* a result wrapped as a one-element sequence
Wrapped(r) == IF r.ok THEN Ok(<<r.val>>) ELSE r

\* calldata that holds a mode and an executionCalldata has been decoded
DecodedFramed == DecodedCalls /\ Framed.ok

\* C22: decodeCalls dispatches on the callType byte of the mode: DELEGATE
\* gives the one Execution of decodeDelegate, BATCH the Executions of
\* decodeBatch, CALL the one Execution of decodeSingle, each mapped to a
\* Call {to, value, data}.
C22_DecodeDispatch ==
  DecodedFramed =>
     LET callType == Framed.val.mode[1]
         payload  == Framed.val.executionCalldata
     IN /\ callType = 255 => res = AsCalls(Wrapped(decodeDelegate(payload)))
        /\ callType = 1 => res = AsCalls(decodeBatch(payload))
        /\ callType = 0 => res = AsCalls(Wrapped(decodeSingle(payload)))

\* C22 restricted to the first definition of decodeCalls
C22_FirstDefinition ==
  (pc = "decoded" /\ op = "decodeCalls_2") \/ C22_DecodeDispatch

\* the fields the claim describes, read from the input with SubSeq
FieldsOfSingle(w) ==
  [ target   |-> SubSeq(w, 1, IF Len(w) < 20 THEN Len(w) ELSE 20),
    value    |-> StripZeros(SubSeq(w, 21, IF Len(w) < 52 THEN Len(w) ELSE 52)),
    callData |-> IF Len(w) > 52 THEN SubSeq(w, 53, Len(w)) ELSE <<>> ]

FieldsOfDelegate(w) ==
  [ target   |-> SubSeq(w, 1, IF Len(w) < 20 THEN Len(w) ELSE 20),
    value    |-> <<>>,
    callData |-> IF Len(w) > 20 THEN SubSeq(w, 21, Len(w)) ELSE <<>> ]

\* C23: for any input, decodeSingle takes target from bytes 0..19, value
\* from bytes 20..51 as an unsigned big-endian integer and callData from byte
\* 52 on (empty for an input of at most 52 bytes); decodeDelegate takes
\* target from bytes 0..19 and callData from byte 20 on (empty for an input
\* of at most 20 bytes).
C23_FieldPositions ==
  /\ (pc = "decoded" /\ op = "decodeSingle") => res = Ok(FieldsOfSingle(wire.val))
  /\ (pc = "decoded" /\ op = "decodeDelegate") => res = Ok(FieldsOfDelegate(wire.val))

\* C23 for decodeSingle on inputs longer than 20 bytes; a shorter input
\* makes decodeSingle fail, and decodeDelegate never fails
C23_FieldPositionsOrFailure ==
  /\ (pc = "decoded" /\ op = "decodeSingle") =>
        IF Len(wire.val) > 20 THEN res = Ok(FieldsOfSingle(wire.val))
        ELSE ~res.ok /\ res.err = "SliceOffsetOutOfBounds"
  /\ (pc = "decoded" /\ op = "decodeDelegate") => res = Ok(FieldsOfDelegate(wire.val))

\* an input of 22 bytes: the value is read from the two bytes there are
C23_Witness ==
  /\ pc = "decoded" /\ op = "decodeSingle" /\ kind = "rawPayload"
  /\ Len(wire.val) = 22
  /\ res.ok /\ res.val.value = <<1, 2>> /\ res.val.callData = <<>>

\* the mode words with a given callType byte
ModesOfCallType(ct) ==
  { <<ct, et>> \o rsv \o sel \o pl :
      et \in {0, 1, 7}, rsv \in {<<0, 0, 0, 0>>, <<0, 0, 0, 9>>, <<1, 0, 0, 0>>},
      sel \in Selectors, pl \in Payloads }

\* C26: for a 32-byte word w, encodeMode(decodeMode(w)) = w exactly when
\* bytes 2..5 of w are zero, two words that differ in bytes 2..5 only decode
\* to the same mode, and the result of decodeCalls depends on none of the
\* reserved bytes, execType, selector and payload of the mode.
C26_ReservedBytesIgnored ==
  /\ (pc = "decoded" /\ op = "decodeMode") =>
        LET w == wire.val
            m == res.val
        IN /\ (encodeMode([ callType |-> Some(m.callType), execType |-> Some(m.execType),
                            selector |-> Some(m.selector), payload  |-> Some(m.payload) ]) = w)
                <=> (SubSeq(w, 3, 6) = <<0, 0, 0, 0>>)
           /\ \A rsv \in {<<0, 0, 0, 0>>, <<0, 0, 0, 9>>, <<255, 255, 255, 255>>} :
                decodeMode(SubSeq(w, 1, 2) \o rsv \o SubSeq(w, 7, 32)) = m
  /\ (DecodedFramed /\ op = "decodeCalls") =>
        \A m \in ModesOfCallType(Framed.val.mode[1]) :
           decodeCalls(encodeFunctionData(Framed.val.functionName, m,
                                          Framed.val.executionCalldata)) = res

\* calldata whose mode has a non-zero reserved byte and execType TRY was
\* decoded to two calls
C26_Witness ==
  /\ DecodedFramed /\ op = "decodeCalls" /\ kind = "rawCalldata"
  /\ Framed.val.mode[6] = 9 /\ Framed.val.mode[2] = 1
  /\ res.ok /\ Len(res.val) = 2

\* C27: calldata made by encodeCalls is for the execute function, with a
\* mode whose execType is DEFAULT, whose selector and payload are zero and
\* whose callType is CALL or BATCH; decoding it takes neither the DELEGATE
\* nor the error branch.
C27_EncodedModeIsPlain ==
  /\ (EncodedCalls /\ wire.ok) =>
        /\ Framed.ok
        /\ Framed.val.functionName = "execute"
        /\ slice(wire.val, 0, 4) = SEL_execute
        /\ decodeMode(Framed.val.mode).execType = EXEC_TYPE_DEFAULT
        /\ decodeMode(Framed.val.mode).selector = <<0, 0, 0, 0>>
        /\ decodeMode(Framed.val.mode).payload = Zeros(22)
        /\ decodeMode(Framed.val.mode).callType \in {CALL_TYPE_CALL, CALL_TYPE_BATCH}
  /\ (DecodedCalls /\ kind = "calls") =>
        /\ Framed.val.mode[1] # 255
        /\ res.ok

C27_Witness ==
  /\ DecodedCalls /\ kind = "calls" /\ op = "decodeCalls"
  /\ Len(arg) = 3
  /\ decodeMode(Framed.val.mode).callType = CALL_TYPE_BATCH
  /\ res.ok

\* the name of the other function of the execution ABI
OtherFunction(name) == IF name = "execute" THEN "executeFromExecutor" ELSE "execute"

\* C28: decodeCalls accepts calldata for executeFromExecutor and decodes it
\* to the calls it decodes calldata for execute with the same mode and
\* executionCalldata to.
C28_FunctionNotChecked ==
  (pc = "decoded" /\ op = "decodeCalls" /\ kind = "rawCalldata"
     /\ slice(wire.val, 0, 4) \in {SEL_execute, SEL_executeFromExecutor}) =>
     /\ res.err # "AbiFunctionSignatureNotFound"
     /\ Framed.ok =>
          decodeCalls(encodeFunctionData(OtherFunction(Framed.val.functionName),
                                         Framed.val.mode, Framed.val.executionCalldata)) = res

C28_Witness ==
  /\ pc = "decoded" /\ op = "decodeCalls" /\ kind = "rawCalldata"
  /\ Framed.ok /\ Framed.val.functionName = "executeFromExecutor"
  /\ res.ok /\ Len(res.val) = 2

\* ------------------------------------------------ entry point and failures
FieldsOf(names, types) == [k \in DOMAIN names |-> [name |-> names[k], type |-> types[k]]]

ReportsV08 == kind = "account" /\ "entryPoint" \notin parameters.override

\* C21: the PackedUserOperation type of the entry point binding lists nine
\* fields in the order sender(address), nonce(uint256), initCode(bytes),
\* callData(bytes), accountGasLimits(bytes32), preVerificationGas(uint256),
\* gasFees(bytes32), paymasterAndData(bytes), signature(bytes).
C21_NineFields ==
  ReportsV08 =>
     account_entryPoint(parameters).types.PackedUserOperation =
       FieldsOf(<< "sender", "nonce", "initCode", "callData", "accountGasLimits",
                   "preVerificationGas", "gasFees", "paymasterAndData", "signature" >>,
                << "address", "uint256", "bytes", "bytes", "bytes32",
                   "uint256", "bytes32", "bytes", "bytes" >>)

\* C21 as the code has it: the type lists the first eight of these fields in
\* that order, and no signature field.
C21_EightFields ==
  ReportsV08 =>
     account_entryPoint(parameters).types.PackedUserOperation =
       FieldsOf(<< "sender", "nonce", "initCode", "callData", "accountGasLimits",
                   "preVerificationGas", "gasFees", "paymasterAndData" >>,
                << "address", "uint256", "bytes", "bytes", "bytes32",
                   "uint256", "bytes32", "bytes" >>)

\* an account that reports entryPointV08 and has signed an operation
C21_Witness ==
  /\ ReportsV08
  /\ Len(account_entryPoint(parameters).types.PackedUserOperation) = 8
  /\ \E i \in Defaults("signUserOperation") : done[i].result.ok

V08_ADDRESS ==
  <<67, 55, 8, 77, 158, 37, 95, 240, 112, 36, 97, 207, 136, 149, 206, 158, 59, 95, 241, 8>>

\* C30: the default getNonce reads at 0x4337084D9E255Ff0702461CF8895CE9E3b5Ff108
\* and the default signUserOperation hashes with that address and version
\* 0.8, whether or not the caller supplies an entryPoint; a supplied
\* entryPoint is the one the account reports, so that the two differ.
C30_DefaultsUseV08 ==
  /\ \A i \in Defaults("getNonce") :
        \A k \in DOMAIN done[i].trace :
           done[i].trace[k].what = "read" => done[i].trace[k].arg.address = V08_ADDRESS
  /\ \A i \in Defaults("signUserOperation") :
        \A k \in DOMAIN done[i].trace :
           done[i].trace[k].what = "getUserOperationHash" =>
              /\ done[i].trace[k].arg.entryPointAddress = V08_ADDRESS
              /\ done[i].trace[k].arg.entryPointVersion = "0.8"
  /\ (kind = "account" /\ "entryPoint" \in parameters.override) =>
        /\ account_entryPoint(parameters).address # V08_ADDRESS
        /\ account_entryPoint(parameters).version # "0.8"

\* with an entryPoint supplied, a nonce was read and an operation hashed
C30_Witness ==
  /\ parameters.override = {"entryPoint"}
  /\ account_entryPoint(parameters).version = "0.7"
  /\ \E i \in Defaults("getNonce") :
        Len(done[i].trace) = 2 /\ done[i].trace[2].arg.address = V08_ADDRESS
  /\ \E i \in Defaults("signUserOperation") :
        /\ done[i].result.ok
        /\ \E k \in DOMAIN done[i].trace :
              /\ done[i].trace[k].what = "getUserOperationHash"
              /\ done[i].trace[k].arg.entryPointVersion = "0.8"

\* the entries of a trace that ask what
AsksOf(trace, what) == { k \in DOMAIN trace : trace[k].what = what }

\* C29: signUserOperation calls getAddress only for an operation without
\* sender; with a sender, getAddress is not called and the hash is computed
\* over the operation with the sender as supplied, whatever address the
\* resolver would return.
C29_SenderSkipsResolver ==
  \A i \in Defaults("signUserOperation") :
     LET d == done[i]
     IN /\ d.arg.sender = None => AsksOf(d.trace, "getAddress") = {1}
        /\ d.arg.sender # None =>
             /\ AsksOf(d.trace, "getAddress") = {}
             /\ d.trace[1].what = "getUserOperationHash"
             /\ d.trace[1].arg.userOperation.sender = d.arg.sender
             /\ d.trace[1].out \in
                  getUserOperationHash([ entryPointAddress |-> V08_ADDRESS,
                                         entryPointVersion |-> "0.8",
                                         userOperation     |-> d.arg,
                                         chainId           |-> d.arg.chainId ])

\* an operation whose sender is not the address of the account, signed
C29_Witness ==
  \E i \in Defaults("signUserOperation") :
     /\ done[i].arg.sender # None
     /\ done[i].arg.sender # Some(ACCOUNT_ADDRESS)
     /\ done[i].arg.chainId # None
     /\ Len(done[i].trace) = 2
     /\ done[i].trace[1].arg.userOperation.sender = Some(Addr1)
     /\ done[i].trace[2].what = "signer"
     /\ done[i].result.ok

\* the traces of the default getNonce and signUserOperation, settled or in
\* progress
ResolvingTraces ==
  { done[i].trace : i \in Defaults("getNonce") \cup Defaults("signUserOperation") }
    \cup { call[s].trace : s \in { x \in DOMAIN call : call[x].step \in {"getAddress", "read", "hash"} } }

\* C24: a failure of getAddress or of the read ends the invocation with that
\* failure: after a failed getAddress, getNonce makes no read and
\* signUserOperation asks neither for the hash nor the signer; nothing is
\* asked a second time within one invocation.
C24_FailuresPropagate ==
  /\ \A t \in ResolvingTraces :
        /\ Cardinality(AsksOf(t, "getAddress")) <= 1
        /\ Cardinality(AsksOf(t, "read")) <= 1
        /\ Cardinality(AsksOf(t, "getUserOperationHash")) <= 1
        /\ Cardinality(AsksOf(t, "signer")) <= 1
  /\ \A i \in Defaults("getNonce") \cup Defaults("signUserOperation") :
        LET d == done[i]
        IN \A k \in DOMAIN d.trace :
              (d.trace[k].what \in {"getAddress", "read"} /\ ~d.trace[k].out.ok) =>
                 /\ k = Len(d.trace)
                 /\ d.result = d.trace[k].out
                 /\ ~d.result.ok
  /\ \A s \in DOMAIN call :
        \A k \in DOMAIN call[s].trace : call[s].trace[k].out.ok

\* a getNonce and a signUserOperation, each ended by the failure of getAddress
C24_Witness ==
  /\ \E i \in Defaults("getNonce") :
        /\ Len(done[i].trace) = 1 /\ done[i].trace[1].what = "getAddress"
        /\ done[i].result = Err("getAddress threw")
  /\ \E i \in Defaults("signUserOperation") :
        /\ done[i].arg.sender = None
        /\ Len(done[i].trace) = 1 /\ done[i].trace[1].what = "getAddress"
        /\ done[i].result = Err("getAddress threw")

\* a getNonce ended by the failure of the read
C24_ReadFailed ==
  \E i \in Defaults("getNonce") :
     /\ Len(done[i].trace) = 2 /\ done[i].trace[2].what = "read"
     /\ done[i].result = Err("read failed")

\* ------------------------------------------------------------ concurrency
\* what an invocation of a default method does when nothing else runs on the
\* account, given the answers its resolver, client and signer give it in the
\* order they are asked: what it asks, and what it returns
RunAlone(name, a, answers) ==
  IF name = "getNonce" THEN
    LET resolved == Asked("getAddress", <<>>, answers[1])
    IN IF ~answers[1].ok THEN [trace |-> <<resolved>>, result |-> answers[1]]
       ELSE [ trace  |-> << resolved,
                            Asked("read",
                                  [ address      |-> entryPointV08.address,
                                    functionName |-> "getNonce",
                                    args         |-> getNonce_readArguments(answers[1].val, a) ],
                                  answers[2]) >>,
              result |-> answers[2] ]
  ELSE IF name = "signUserOperation" THEN
    LET resolved == IF a.sender = None THEN << Asked("getAddress", <<>>, answers[1]) >> ELSE <<>>
        n        == Len(resolved)
    IN IF n = 1 /\ ~answers[1].ok THEN [trace |-> resolved, result |-> answers[1]]
       ELSE LET p      == signUserOperation_hashParameters(
                            a, IF n = 1 THEN Some(answers[1].val) ELSE None)
                hashed == Append(resolved, Asked("getUserOperationHash", p, answers[n + 1]))
            IN IF ~answers[n + 1].ok THEN [trace |-> hashed, result |-> answers[n + 1]]
               ELSE [ trace  |-> Append(hashed, Asked("signer", answers[n + 1].val, answers[n + 2])),
                      result |-> answers[n + 2] ]
  ELSE IF name \in {"signMessage", "signTypedData"} THEN
    [trace |-> << Asked("signer", a, answers[1]) >>, result |-> answers[1]]
  ELSE IF name = "encodeCalls" THEN [trace |-> <<>>, result |-> encodeCalls(a)]
  ELSE [trace |-> <<>>, result |-> decodeCalls(a)]

\* the answers an invocation got, in the order it asked
AnswersOf(d) == [k \in DOMAIN d.trace |-> d.trace[k].out]

\* the signer's answers are those of the signer of the account
SignerAnswers(d) ==
  \A k \in AsksOf(d.trace, "signer") :
     d.trace[k].out \in
       IF d.name = "signUserOperation" THEN signUserOperation_sign(TheSigner, d.trace[k].arg)
       ELSE account_sign(d.name, TheSigner, d.trace[k].arg)

====
